---- MODULE Spec2Model ----
(***************************************************************************)
(* BugSeek analysis pipeline (backend/ai_services.py, backend/services.py, *)
(* backend/models.py): the OpenAI client with its retry loop and usage     *)
(* accounting, the OpenAIStatus row, and AIAnalysisService.                *)
(*                                                                         *)
(* Python's None is the string "none"; a missing timestamp is 0.           *)
(* Confidences are in hundredths (0.85 is 85).  Costs are in units of      *)
(* 0.00001 dollar (0.00002 per token is 2 per token).                      *)
(***************************************************************************)
EXTENDS Integers, Sequences, FiniteSets, TLC

VARIABLES
    max_retries,    \* OpenAIService.max_retries (configuration)
    api_key,        \* TRUE iff OpenAIService.api_key is a non-empty string
    statusRows,     \* table openai_status: sequence of rows, Status_ID = index
    analysisRows,   \* table ai_analysis_results: sequence of rows, Analysis_ID = index
    logs,           \* table error_logs: the log content of each incident (None: no text)
    clock,          \* datetime.utcnow(), advanced by every write to the store
    calls,          \* number of operations started so far
    wk,             \* per worker (thread with its own db.session): position and locals
    errorLogs,      \* table error_logs: the rows find_similar_logs compares
    matchRows,      \* table similar_log_matches: sequence of rows
    sim,            \* the last call of find_similar_logs: arguments and return value
    fn              \* the last call of a function without side effects: input, output

vars == <<max_retries, api_key, statusRows, analysisRows, logs, clock, calls, wk,
          errorLogs, matchRows, sim, fn>>

\* the state of the completion client and of analyze_error_log
pipelineVars == <<max_retries, api_key, statusRows, analysisRows, logs, clock, calls, wk>>

\* the state of the similarity search and of the calls of pure functions
otherVars == <<errorLogs, matchRows, sim, fn>>

----------------------------------------------------------------------------
(* Bounds of the model *)

MaxRetriesBound == 2
MaxTokens == 1
MaxCalls == 3
MaxAnalyses == 2
MaxSearches == 2

Workers == {1, 2}
Tokens == 1..MaxTokens
Incidents == {1, 2}

None == "none"

----------------------------------------------------------------------------
(* The endpoint's answers to requests.post *)

\* "ok": HTTP 200; "http_error": any other status (500);
\* "timeout": requests.exceptions.Timeout; "conn_error": any other exception
RespKinds == {"ok", "http_error", "timeout", "conn_error"}

\* message content of a 200 answer: a JSON object of the asked shape, text that is
\* not JSON, or valid JSON that is not an object (a list)
Contents == {"object", "text", "list"}

Responses ==
    [kind : {"ok"}, tokens : Tokens, content : Contents]
    \cup [kind : RespKinds \ {"ok"}, tokens : {0}, content : {None}]

\* the dictionaries _make_chat_request returns; NoResult is Python's None,
\* returned when the function falls off its end
ChatOk(tokens, content) ==
    [success |-> "true", tokens_used |-> tokens, content |-> content, error |-> None]
ChatFail(err) ==
    [success |-> "false", tokens_used |-> 0, content |-> None, error |-> err]
NoResult ==
    [success |-> None, tokens_used |-> 0, content |-> None, error |-> None]

ErrorOf(kind) ==
    CASE kind = "http_error" -> "HTTP 500"
      [] kind = "timeout"    -> "Request timeout"
      [] OTHER               -> "ConnectionError"

RECURSIVE Pow2(_)
Pow2(n) == IF n <= 0 THEN 1 ELSE 2 * Pow2(n - 1)

\* time.sleep(2 ** attempt)
Backoff(attempt) == Pow2(attempt)

\* tokens_used * 0.00002
EstimatedCost(tokens) == tokens * 2

----------------------------------------------------------------------------
(* ErrorPatternRecognizer *)

\* ERROR_PATTERNS, in the order of the dictionary
ERROR_PATTERNS == <<
    [name |-> "kernel_panic", category |-> "kernel", severity |-> "critical",
     patterns |-> << "kernel panic", "oops:", "unable to handle kernel" >>],
    [name |-> "segmentation_fault", category |-> "memory", severity |-> "high",
     patterns |-> << "segmentation fault", "sigsegv", "signal 11" >>],
    [name |-> "out_of_memory", category |-> "memory", severity |-> "high",
     patterns |-> << "out of memory", "oom killer", "memory allocation failed" >>],
    [name |-> "buffer_overflow", category |-> "security", severity |-> "critical",
     patterns |-> << "buffer overflow", "stack smashing", "heap overflow" >>],
    [name |-> "device_not_found", category |-> "hardware", severity |-> "medium",
     patterns |-> << "device not found", "no such device", "device or resource busy" >>],
    [name |-> "io_error", category |-> "filesystem", severity |-> "high",
     patterns |-> << "i/o error", "input/output error", "read-only file system" >>],
    [name |-> "permission_denied", category |-> "security", severity |-> "medium",
     patterns |-> << "permission denied", "access denied", "operation not permitted" >>],
    [name |-> "network_error", category |-> "network", severity |-> "medium",
     patterns |-> << "network is unreachable", "connection refused", "network down" >>],
    [name |-> "watchdog_timeout", category |-> "hardware", severity |-> "high",
     patterns |-> << "watchdog timeout", "watchdog bite", "hardware watchdog" >>],
    [name |-> "android_anr", category |-> "android", severity |-> "medium",
     patterns |-> << "anr", "application not responding", "input dispatching timed out" >>],
    [name |-> "java_exception", category |-> "application", severity |-> "medium",
     patterns |-> << "exception in thread", "java.lang.", "caused by:" >>] >>

\* a log text, as far as the recognizer sees it: the rules of which some trigger
\* is found in the lower-cased text; NoText is a log_content of None
Text(hits) == [valid |-> TRUE, hits |-> hits]
NoText == [valid |-> FALSE, hits |-> {}]

\* `re.search(pattern_regex, log_lower)` for some trigger of the rule
Matches(rule, text) == rule.name \in text.hits

\* severity_order.get(sev, 2)
severity_order(sev) ==
    CASE sev = "low"      -> 1
      [] sev = "medium"   -> 2
      [] sev = "high"     -> 3
      [] sev = "critical" -> 4
      [] OTHER            -> 2

\* mutant: equal severities compared as if the first were the higher
compare_severity_M(sev1, sev2) == severity_order(sev1) - severity_order(sev2) + 1

\* ErrorPatternRecognizer._compare_severity
compare_severity(sev1, sev2) == severity_order(sev1) - severity_order(sev2)

\* the loop of recognize_patterns from rule i on; acc holds matched_patterns,
\* highest_severity and primary_category
RECURSIVE ScanRules(_, _, _)
ScanRules(i, text, acc) ==
    IF i > Len(ERROR_PATTERNS) THEN acc
    ELSE LET rule == ERROR_PATTERNS[i] IN
         IF Matches(rule, text)
         THEN ScanRules(i + 1, text,
                [matched_patterns |-> Append(acc.matched_patterns, rule.name),
                 highest_severity |->
                    IF compare_severity(rule.severity, acc.highest_severity) > 0
                    THEN rule.severity ELSE acc.highest_severity,
                 primary_category |->
                    IF compare_severity(rule.severity, acc.highest_severity) > 0
                    THEN rule.category ELSE acc.primary_category])
         ELSE ScanRules(i + 1, text, acc)

\* ErrorPatternRecognizer.recognize_patterns; log_content.lower() raises on None
\* and the except branch returns success False
recognize_patterns(text) ==
    IF ~text.valid
    THEN [success |-> FALSE, matched_patterns |-> <<>>, primary_pattern |-> None,
          primary_category |-> None, estimated_severity |-> None, pattern_count |-> 0]
    ELSE LET acc == ScanRules(1, text,
                      [matched_patterns |-> <<>>, highest_severity |-> "low",
                       primary_category |-> "general"])
         IN [success |-> TRUE,
             matched_patterns |-> acc.matched_patterns,
             primary_pattern |-> IF acc.matched_patterns # <<>>
                                 THEN acc.matched_patterns[1] ELSE None,
             primary_category |-> acc.primary_category,
             estimated_severity |-> acc.highest_severity,
             pattern_count |-> Len(acc.matched_patterns)]

\* the character at position i of a string
CharAt(str, i) == SubSeq(str, i, i)

\* str.lower(), on the letters that occur in the texts of the model
LowerChar(ch) ==
    CASE ch = "A" -> "a" [] ch = "B" -> "b" [] ch = "C" -> "c" [] ch = "D" -> "d"
      [] ch = "E" -> "e" [] ch = "F" -> "f" [] ch = "G" -> "g" [] ch = "H" -> "h"
      [] ch = "I" -> "i" [] ch = "J" -> "j" [] ch = "K" -> "k" [] ch = "L" -> "l"
      [] ch = "M" -> "m" [] ch = "N" -> "n" [] ch = "O" -> "o" [] ch = "P" -> "p"
      [] ch = "Q" -> "q" [] ch = "R" -> "r" [] ch = "S" -> "s" [] ch = "T" -> "t"
      [] ch = "U" -> "u" [] ch = "V" -> "v" [] ch = "W" -> "w" [] ch = "X" -> "x"
      [] ch = "Y" -> "y" [] ch = "Z" -> "z" [] OTHER -> ch

RECURSIVE LowerFrom(_, _)
LowerFrom(str, i) ==
    IF i > Len(str) THEN "" ELSE LowerChar(CharAt(str, i)) \o LowerFrom(str, i + 1)

lower(str) == LowerFrom(str, 1)

\* re.match of a pattern at position i of str: `.` stands for any character but a
\* newline, every other character of the patterns of the table for itself
MatchAt(pattern_regex, str, i) ==
    \A k \in 1..Len(pattern_regex) :
        IF CharAt(pattern_regex, k) = "."
        THEN CharAt(str, i + k - 1) # "\n"
        ELSE CharAt(str, i + k - 1) = CharAt(pattern_regex, k)

\* re.search(pattern_regex, str)
re_search(pattern_regex, str) ==
    \E i \in 1..(Len(str) - Len(pattern_regex) + 1) : MatchAt(pattern_regex, str, i)

\* the text the recognizer sees for a log_content: the rules one of whose patterns
\* is found in log_content.lower()
TextOf(log_content) ==
    IF log_content = None THEN NoText
    ELSE LET log_lower == lower(log_content) IN
         Text({ERROR_PATTERNS[r].name : r \in
                 {r \in DOMAIN ERROR_PATTERNS :
                    \E k \in DOMAIN ERROR_PATTERNS[r].patterns :
                       re_search(ERROR_PATTERNS[r].patterns[k], log_lower)}})

\* the log contents the incidents of the model are given
TextSamples ==
    {Text({}), Text({"segmentation_fault", "buffer_overflow"}), NoText}

----------------------------------------------------------------------------
(* OpenAIStatus *)

\* column defaults of a new OpenAIStatus row
NewStatusRow ==
    [IsConnected |-> FALSE, LastConnectionCheck |-> 0, LastSuccessfulCall |-> 0,
     LastErrorMessage |-> None, TotalApiCalls |-> 0, TotalTokensUsed |-> 0,
     EstimatedTotalCost |-> 0, UpdatedAt |-> 0]

\* OpenAIStatus.update_connection_status
update_connection_status(row, is_connected, error_message, now) ==
    [row EXCEPT !.IsConnected = is_connected,
                !.LastConnectionCheck = now,
                !.LastSuccessfulCall = IF is_connected THEN now ELSE @,
                !.LastErrorMessage = IF error_message # None THEN error_message ELSE @,
                !.UpdatedAt = now]

\* OpenAIStatus.increment_usage, applied to the values the session has loaded
increment_usage(row, tokens_used, estimated_cost, now) ==
    [row EXCEPT !.TotalApiCalls = @ + 1,
                !.TotalTokensUsed = @ + tokens_used,
                !.EstimatedTotalCost = @ + estimated_cost,
                !.UpdatedAt = now]

\* OpenAIStatus.get_current_status: the ids of the rows with the greatest UpdatedAt
\* (the query returns the first of them; empty when the table is empty)
get_current_status ==
    {i \in DOMAIN statusRows :
        \A j \in DOMAIN statusRows : statusRows[j].UpdatedAt <= statusRows[i].UpdatedAt}

\* db.session.commit() of a loaded row: the UPDATE sets the columns whose value
\* differs from the value the session loaded, and leaves the others as stored
FlushUpdate(stored, loaded, changed) ==
    [c \in DOMAIN stored |-> IF changed[c] # loaded[c] THEN changed[c] ELSE stored[c]]

----------------------------------------------------------------------------
(* AIAnalysisResult and the steps of analyze_error_log that touch it *)

\* AIAnalysisResult(Cr_ID, AnalysisType='complete', Status='processing',
\* ProcessingStartTime=utcnow()) with the column defaults
NewAnalysisRow(cr_id, now) ==
    [Cr_ID |-> cr_id, AnalysisType |-> "complete", Status |-> "processing",
     ProcessingStartTime |-> now, ProcessingEndTime |-> 0,
     Summary |-> None, Confidence |-> 0, Keywords |-> None,
     SuggestedSolutions |-> None, ErrorPattern |-> None, ErrorCategory |-> None,
     EstimatedSeverity |-> None, TokensUsed |-> 0, ApiCost |-> 0,
     ErrorMessage |-> None]

\* 'confidence': 0.85 of generate_summary and 'confidence': 0.80 of
\* suggest_solutions, in hundredths
SummaryConfidence == 85
SolutionsConfidence == 80

\* the result dictionaries of OpenAIService.generate_summary / suggest_solutions
AiStepOk(summary, severity, keywords, solutions, confidence, tokens) ==
    [success |-> TRUE, summary |-> summary, severity |-> severity,
     keywords |-> keywords, solutions |-> solutions, confidence |-> confidence,
     tokens_used |-> tokens, error |-> None]
AiStepFail(err) ==
    [success |-> FALSE, summary |-> None, severity |-> None, keywords |-> None,
     solutions |-> None, confidence |-> 0, tokens_used |-> 0, error |-> err]

\* OpenAIService.generate_summary after _make_chat_request has returned res
ParseSummary(res) ==
    IF res.success = None THEN AiStepFail("TypeError")      \* None['success']
    ELSE IF res.success = "false" THEN AiStepFail(res.error) \* return result
    ELSE CASE res.content = "object" ->
                AiStepOk("ai_summary", "ai_severity", "ai_keywords", None,
                         SummaryConfidence, res.tokens_used)
           [] res.content = "text" ->                        \* JSONDecodeError
                AiStepOk("ai_text", "medium", None, None, SummaryConfidence,
                         res.tokens_used)
           [] OTHER ->                                       \* no .get on a list
                AiStepFail("Failed to parse AI response")

\* OpenAIService.suggest_solutions after _make_chat_request has returned res
ParseSolutions(res) ==
    IF res.success = None THEN AiStepFail("TypeError")
    ELSE IF res.success = "false" THEN AiStepFail(res.error)
    ELSE CASE res.content = "object" ->
                AiStepOk(None, None, None, "ai_solutions", SolutionsConfidence,
                         res.tokens_used)
           [] res.content = "text" ->
                AiStepOk(None, None, None, "text_solution", SolutionsConfidence,
                         res.tokens_used)
           [] OTHER ->
                AiStepFail("Failed to parse solutions")

\* analyze_error_log, step 1
AttachPattern(obj, pattern_result) ==
    IF pattern_result.success
    THEN [obj EXCEPT !.ErrorPattern = pattern_result.primary_pattern,
                     !.ErrorCategory = pattern_result.primary_category,
                     !.EstimatedSeverity = pattern_result.estimated_severity]
    ELSE obj

\* mutant: a failed summary replaced by a pattern-derived one with confidence 0.65
AttachSummary_M(obj, summary_result) ==
    IF summary_result.success
    THEN [obj EXCEPT !.Summary = summary_result.summary,
                     !.Confidence = summary_result.confidence,
                     !.Keywords = summary_result.keywords,
                     !.TokensUsed = @ + summary_result.tokens_used]
    ELSE [obj EXCEPT !.Summary = "pattern_summary", !.Confidence = 65]

\* mutant: the severity of the AI summary written over the recognizer's
AttachSummary_Sev(obj, summary_result) ==
    IF summary_result.success
    THEN [obj EXCEPT !.Summary = summary_result.summary,
                     !.Confidence = summary_result.confidence,
                     !.Keywords = summary_result.keywords,
                     !.EstimatedSeverity = summary_result.severity,
                     !.TokensUsed = @ + summary_result.tokens_used]
    ELSE obj

\* analyze_error_log, step 2
AttachSummary(obj, summary_result) ==
    IF summary_result.success
    THEN [obj EXCEPT !.Summary = summary_result.summary,
                     !.Confidence = summary_result.confidence,
                     !.Keywords = summary_result.keywords,
                     !.TokensUsed = @ + summary_result.tokens_used]
    ELSE obj

\* mutant: failed suggestions replaced by a list of generic steps
AttachSolutions_M(obj, solution_result) ==
    IF solution_result.success
    THEN [obj EXCEPT !.SuggestedSolutions = solution_result.solutions,
                     !.TokensUsed = @ + solution_result.tokens_used]
    ELSE [obj EXCEPT !.SuggestedSolutions = "generic_solutions"]

\* analyze_error_log, step 3
AttachSolutions(obj, solution_result) ==
    IF solution_result.success
    THEN [obj EXCEPT !.SuggestedSolutions = solution_result.solutions,
                     !.TokensUsed = @ + solution_result.tokens_used]
    ELSE obj

\* mutant: the end time is set but the status is left as it was
MarkCompleted_M(obj, now) == [obj EXCEPT !.ProcessingEndTime = now]

\* analysis.Status = 'completed'; analysis.ProcessingEndTime = datetime.utcnow()
MarkCompleted(obj, now) ==
    [obj EXCEPT !.Status = "completed", !.ProcessingEndTime = now]

\* the except block: analysis.Status = 'failed' with the message and the end time
MarkFailed(obj, err, now) ==
    [obj EXCEPT !.Status = "failed", !.ErrorMessage = err, !.ProcessingEndTime = now]

\* what analyze_error_log returns: the results dictionary of the try block, the
\* dictionary of the except block (it has no status key), or nothing when the
\* except block itself raises
AnalysisCompleted(obj) ==
    [success |-> "true", status |-> "completed",
     total_tokens_used |-> obj.TokensUsed, error |-> None]
AnalysisFailed(err) ==
    [success |-> "false", status |-> None, total_tokens_used |-> 0, error |-> err]
NoAnalysisResult ==
    [success |-> None, status |-> None, total_tokens_used |-> 0, error |-> None]

----------------------------------------------------------------------------
(* GenAIService (backend/services.py), with AI_SERVICES_AVAILABLE true *)

\* 'confidence': 0.65 of the pattern-based summary; 0.7 and 0.4 of the fallback
\* solutions and of their ultimate fallback; formatted_solutions[:5], solutions[:8]
PatternSummaryConfidence == 65
FallbackSolutionsConfidence == 70
UltimateFallbackConfidence == 40
AiSolutionsLimit == 5
FallbackSolutionsLimit == 8

\* the dictionaries GenAIService.generate_summary / suggest_solutions return
GenAIResult(success, summary, keywords, solutions, confidence, severity, message) ==
    [success |-> success, summary |-> summary, keywords |-> keywords,
     solutions |-> solutions, confidence |-> confidence, severity |-> severity,
     message |-> message]

\* no result yet
NoGenAIResult == GenAIResult(FALSE, None, None, <<>>, 0, None, None)

\* `word in text`
InText(word, text) ==
    \E i \in 1..(Len(text) - Len(word) + 1) : SubSeq(text, i, i + Len(word) - 1) = word

\* f"Detected {pattern_result.get('pattern_count', 0)} error patterns. Primary:
\* {pattern_result.get('primary_pattern', 'Unknown')}": the failure dictionary of
\* recognize_patterns has neither key, a result without match has the key with None
PatternSummary(pattern_result) ==
    "Detected " \o ToString(pattern_result.pattern_count)
       \o " error patterns. Primary: "
       \o (IF ~pattern_result.success THEN "Unknown"
           ELSE IF pattern_result.primary_pattern = None THEN "None"
           ELSE pattern_result.primary_pattern)

\* mutant: the failure of the AI call handed on to the caller
GenAI_generate_summary_M(text, result) ==
    IF result.success
    THEN GenAIResult(TRUE, result.summary, result.keywords, <<>>, result.confidence,
                     result.severity, "AI summary generated successfully")
    ELSE GenAIResult(FALSE, "Failed to generate summary", None, <<>>, 0, None,
                     "Summary generation failed")

\* GenAIService.generate_summary once OpenAIService.generate_summary has
\* returned result; text is the log content as the recognizer reads it; the
\* fallback has 'keywords': []
GenAI_generate_summary(text, result) ==
    IF result.success
    THEN GenAIResult(TRUE, result.summary, result.keywords, <<>>, result.confidence,
                     result.severity, "AI summary generated successfully")
    ELSE LET pattern_result == recognize_patterns(text)
         IN GenAIResult(TRUE, PatternSummary(pattern_result), None, <<>>,
                        PatternSummaryConfidence,
                        IF pattern_result.success
                        THEN pattern_result.estimated_severity ELSE "medium",
                        "Pattern-based summary generated (AI unavailable)")

\* the error_log dictionary, as far as suggest_solutions reads it
ErrorLogDict(name, description, team, preview) ==
    [ErrorName |-> name, Description |-> description, TeamName |-> team,
     LogContentPreview |-> preview]

\* (value or '')
OrEmpty(value) == IF value = None THEN "" ELSE value

\* the branch of _get_enhanced_fallback_solutions taken for combined_text: the
\* first list with a word found in it
SolutionBranches == <<
    [name |-> "database", words |-> {"database", "sql", "connection", "query", "transaction"}],
    [name |-> "memory", words |-> {"memory", "heap", "stack", "outofmemory", "allocation"}],
    [name |-> "auth", words |-> {"auth", "login", "permission", "access", "credential", "token"}],
    [name |-> "network", words |-> {"network", "connection", "timeout", "host", "port", "socket"}],
    [name |-> "file", words |-> {"file", "directory", "path", "disk", "storage", "io"}],
    [name |-> "config", words |-> {"config", "setting", "parameter", "property", "environment"}],
    [name |-> "api", words |-> {"api", "service", "endpoint", "request", "response"}] >>

BranchOf(combined_text) ==
    LET hit == {b \in DOMAIN SolutionBranches :
                  \E w \in SolutionBranches[b].words : InText(w, combined_text)}
    IN IF hit = {} THEN "generic"
       ELSE SolutionBranches[CHOOSE b \in hit : \A c \in hit : b <= c].name

\* the five solutions of a branch, and the two added for a team
BranchSolutions(branch) == [k \in 1..5 |-> branch \o "_" \o ToString(k)]
TeamSolutions(team_lower) ==
    IF team_lower \in {"frontend", "ui", "web"} THEN <<"team_frontend_1", "team_frontend_2">>
    ELSE IF team_lower \in {"backend", "api", "server"} THEN <<"team_backend_1", "team_backend_2">>
    ELSE IF team_lower \in {"database", "data"} THEN <<"team_database_1", "team_database_2">>
    ELSE <<>>

\* the four solutions of the except branch
UltimateSolutions == [k \in 1..4 |-> "ultimate_" \o ToString(k)]

\* GenAIService._get_enhanced_fallback_solutions; error_log.get('TeamName', '')
\* is None when the key holds None, and team.lower() raises into the except
\* branch
get_enhanced_fallback_solutions(error_log) ==
    IF error_log.TeamName = None
    THEN GenAIResult(TRUE, None, None, UltimateSolutions, UltimateFallbackConfidence, None,
                     "Basic fallback solutions provided")
    ELSE LET error_name == lower(OrEmpty(error_log.ErrorName))
             description == lower(OrEmpty(error_log.Description))
             combined_text == lower(error_name \o " " \o description)
             solutions == BranchSolutions(BranchOf(combined_text))
                             \o TeamSolutions(lower(error_log.TeamName))
         IN GenAIResult(TRUE, None, None,
                        SubSeq(solutions, 1,
                               IF Len(solutions) < FallbackSolutionsLimit
                               THEN Len(solutions) ELSE FallbackSolutionsLimit),
                        FallbackSolutionsConfidence, None,
                        "Context-aware solutions generated (AI services offline)")

\* GenAIService.suggest_solutions once OpenAIService.suggest_solutions has
\* returned result; the list of the AI is kept as one entry
GenAI_suggest_solutions(error_log, result) ==
    IF result.success
    THEN GenAIResult(TRUE, None, None, <<result.solutions>>, result.confidence, None,
                     "AI solutions generated successfully")
    ELSE get_enhanced_fallback_solutions(error_log)

\* log_content = error_log.get('LogContentPreview', '') or
\* error_log.get('Description', '')
SolutionsLogContent(error_log) ==
    IF OrEmpty(error_log.LogContentPreview) # "" THEN error_log.LogContentPreview
    ELSE error_log.Description

----------------------------------------------------------------------------
(* Workers *)

IdleWorker ==
    [pc |-> "idle", op |-> None, attempt |-> 0, resps |-> <<>>, sleeps |-> <<>>,
     pending |-> NoResult, sess_id |-> 0, sess |-> NewStatusRow,
     conn |-> FALSE, err |-> None, result |-> NoResult, raised |-> FALSE,
     cr |-> 0, stage |-> None, arow |-> 0, obj |-> NewAnalysisRow(0, 0),
     summary_ok |-> FALSE, solutions_ok |-> FALSE, commit_failed |-> FALSE,
     called |-> <<>>, aresult |-> NoAnalysisResult,
     rsummary |-> NoGenAIResult, rsolutions |-> NoGenAIResult]

Resting(w) == wk[w].pc \in {"idle", "done"}

\* mutant: the last attempt taken to be number max_retries (one more request
\* than the loop makes)
IsLastAttempt_M(attempt) == attempt = max_retries

\* the comparison `attempt == self.max_retries - 1`
IsLastAttempt(attempt) == attempt = max_retries - 1

\* `for attempt in range(self.max_retries)`: does the loop run for this attempt
InRange(attempt) == attempt < max_retries

RECURSIVE ChatReturn(_, _)

\* the worker at the head of the retry loop: either the next request, or the
\* end of the function (return None)
LoopHead(wr, attempt) ==
    IF InRange(attempt)
    THEN [wr EXCEPT !.pc = "post", !.attempt = attempt]
    ELSE ChatReturn(wr, NoResult)

\* a fresh call of _make_chat_request by worker record wr
EnterChat(wr) ==
    LoopHead([wr EXCEPT !.resps = <<>>, !.sleeps = <<>>], 0)

\* analyze_error_log after suggest_solutions has returned: up to the last commit
AfterSolutions(wr, solution_result) ==
    [wr EXCEPT !.obj = AttachSolutions(@, solution_result),
               !.solutions_ok = solution_result.success,
               !.stage = None,
               !.pc = "final_commit"]

\* the call of suggest_solutions: building the prompt slices log_content, which
\* raises on None before any request is made
EnterSolutions(wr) ==
    LET in == [wr EXCEPT !.stage = "solutions", !.called = Append(@, "solutions")]
    IN IF logs[wr.cr].valid
       THEN EnterChat(in)
       ELSE AfterSolutions(in, AiStepFail("TypeError"))

\* mutant: a failed summary ends the run without the call of suggest_solutions
AfterSummary_M(wr, summary_result) ==
    LET got == [wr EXCEPT !.obj = AttachSummary(@, summary_result),
                          !.summary_ok = summary_result.success]
    IN IF summary_result.success
       THEN EnterSolutions(got)
       ELSE AfterSolutions(got, AiStepFail("skipped"))

\* analyze_error_log after generate_summary has returned
AfterSummary(wr, summary_result) ==
    EnterSolutions([wr EXCEPT !.obj = AttachSummary(@, summary_result),
                              !.summary_ok = summary_result.success])

\* the call of generate_summary
EnterSummary(wr) ==
    LET in == [wr EXCEPT !.stage = "summary", !.called = Append(@, "summary")]
    IN IF logs[wr.cr].valid
       THEN EnterChat(in)
       ELSE AfterSummary(in, AiStepFail("TypeError"))

\* " ".join(words), which split() undoes
RECURSIVE JoinWords(_, _)
JoinWords(words, k) ==
    IF k > Len(words) THEN ""
    ELSE IF k = Len(words) THEN words[k]
    ELSE words[k] \o " " \o JoinWords(words, k + 1)

\* error_log of LogReport.get (ErrorLog.to_dict()), as far as GenAIService reads
\* it: the row of the incident and the preview of its log
ReportErrorLog(cr_id) ==
    LET row == errorLogs[cr_id]
    IN ErrorLogDict(row.ErrorName,
                    IF row.Description = <<>> THEN None ELSE JoinWords(row.Description, 1),
                    row.TeamName,
                    IF logs[cr_id].valid THEN "preview" ELSE None)

\* the summary and the solutions LogReport.get takes from the stored analysis
\* (ai_analysis['Summary'] / ['SuggestedSolutions'] when they are not empty)
StoredSummary(row) ==
    GenAIResult(TRUE, row.Summary, row.Keywords, <<>>, row.Confidence,
                row.EstimatedSeverity, "stored")
StoredSolutions(row) ==
    GenAIResult(TRUE, None, None, <<>>, row.Confidence, None, "stored")

\* LogReport.get once solutions_result is known: up to the persisting
AfterReportSolutions(wr, solutions_result) ==
    [wr EXCEPT !.rsolutions = solutions_result, !.stage = None,
               !.pc = "report_persist"]

\* LogReport.get, `Generate or retrieve solution suggestions`: the stored
\* solutions, or GenAIService.suggest_solutions, whose OpenAI call raises before
\* any request when there is neither preview nor description
EnterReportSolutions(wr) ==
    LET in == [wr EXCEPT !.stage = "solutions"]
        error_log == ReportErrorLog(wr.cr)
    IN IF wr.arow # 0 /\ analysisRows[wr.arow].SuggestedSolutions # None
       THEN AfterReportSolutions(in, StoredSolutions(analysisRows[wr.arow]))
       ELSE IF SolutionsLogContent(error_log) # None
       THEN EnterChat(in)
       ELSE AfterReportSolutions(in,
               GenAI_suggest_solutions(error_log, AiStepFail("TypeError")))

\* LogReport.get once summary_result is known
AfterReportSummary(wr, summary_result) ==
    EnterReportSolutions([wr EXCEPT !.rsummary = summary_result])

\* LogReport.get, `Generate or retrieve AI summary`
EnterReportSummary(wr) ==
    LET in == [wr EXCEPT !.stage = "summary"]
    IN IF wr.arow # 0 /\ analysisRows[wr.arow].Summary # None
       THEN AfterReportSummary(in, StoredSummary(analysisRows[wr.arow]))
       ELSE IF logs[wr.cr].valid
       THEN EnterChat(in)
       ELSE AfterReportSummary(in,
               GenAI_generate_summary(logs[wr.cr], AiStepFail("TypeError")))

\* the worker after _make_chat_request has returned res to its caller
ChatReturn(wr, res) ==
    LET back == [wr EXCEPT !.pending = NoResult, !.attempt = 0,
                           !.resps = <<>>, !.sleeps = <<>>]
    IN IF wr.op = "analyze"
       THEN IF wr.stage = "summary"
            THEN AfterSummary(back, ParseSummary(res))
            ELSE AfterSolutions(back, ParseSolutions(res))
       ELSE IF wr.op = "report"
       THEN IF wr.stage = "summary"
            THEN AfterReportSummary(back,
                    GenAI_generate_summary(logs[wr.cr], ParseSummary(res)))
            ELSE AfterReportSolutions(back,
                    GenAI_suggest_solutions(ReportErrorLog(wr.cr), ParseSolutions(res)))
       ELSE [wr EXCEPT !.pending = NoResult, !.pc = "done", !.result = res]

\* what the body of the retry loop does with an answer that is not a 200
OnFailure(wr, kind) ==
    IF kind \in {"http_error", "timeout"}
    THEN IF IsLastAttempt(wr.attempt)
         THEN ChatReturn(wr, ChatFail(ErrorOf(kind)))
         ELSE LoopHead([wr EXCEPT !.sleeps = Append(@, Backoff(wr.attempt))],
                       wr.attempt + 1)
    ELSE \* any other exception leaves the loop through the outer except
         ChatReturn(wr, ChatFail(ErrorOf(kind)))

\* OpenAIService._make_chat_request called on its own
StartChat(w) ==
    /\ Resting(w)
    /\ calls < MaxCalls
    /\ calls' = calls + 1
    /\ wk' = [wk EXCEPT ![w] = EnterChat([IdleWorker EXCEPT !.op = "chat"])]
    /\ UNCHANGED <<otherVars, max_retries, api_key, statusRows, analysisRows, logs, clock>>

\* one pass of the retry loop: requests.post and the handling of its answer
ChatAttempt(w) ==
    /\ wk[w].pc = "post"
    /\ \E r \in Responses :
         LET wr == [wk[w] EXCEPT !.resps = Append(@, r.kind)] IN
         IF r.kind = "ok"
         THEN wk' = [wk EXCEPT ![w] =
                       [wr EXCEPT !.pc = "usage_read",
                                  !.pending = ChatOk(r.tokens, r.content)]]
         ELSE /\ wk' = [wk EXCEPT ![w] = OnFailure(wr, r.kind)]
    /\ UNCHANGED <<otherVars, max_retries, api_key, statusRows, analysisRows, logs, clock, calls>>

\* _update_usage_stats, first half: get_current_status loads the row into the session
UsageRead(w) ==
    /\ wk[w].pc = "usage_read"
    /\ IF get_current_status = {}
       THEN wk' = [wk EXCEPT ![w] = ChatReturn(wk[w], wk[w].pending)]
       ELSE \E i \in get_current_status :
              wk' = [wk EXCEPT ![w] =
                       [@ EXCEPT !.pc = "usage_commit", !.sess_id = i, !.sess = statusRows[i]]]
    /\ UNCHANGED <<otherVars, max_retries, api_key, statusRows, analysisRows, logs, clock, calls>>

\* _update_usage_stats, second half: increment_usage on the loaded values and commit
UsageCommit(w) ==
    /\ wk[w].pc = "usage_commit"
    /\ clock' = clock + 1
    /\ LET t   == wk[w].pending.tokens_used
           upd == increment_usage(wk[w].sess, t, EstimatedCost(t), clock')
       IN statusRows' = [statusRows EXCEPT ![wk[w].sess_id] = FlushUpdate(@, wk[w].sess, upd)]
    /\ wk' = [wk EXCEPT ![w] = ChatReturn(wk[w], wk[w].pending)]
    /\ UNCHANGED <<otherVars, max_retries, api_key, analysisRows, logs, calls>>

\* OpenAIService.check_connection up to the probe request
StartCheck(w) ==
    /\ Resting(w)
    /\ calls < MaxCalls
    /\ calls' = calls + 1
    /\ wk' = [wk EXCEPT ![w] =
                IF api_key
                THEN [IdleWorker EXCEPT !.op = "check", !.pc = "probe"]
                ELSE [IdleWorker EXCEPT !.op = "check", !.pc = "done",
                                        !.result = ChatFail("OpenAI API key not configured")]]
    /\ UNCHANGED <<otherVars, max_retries, api_key, statusRows, analysisRows, logs, clock>>

\* check_connection: the probe request and the choice of _update_status's arguments
Probe(w) ==
    /\ wk[w].pc = "probe"
    /\ \E kind \in RespKinds :
         wk' = [wk EXCEPT ![w] =
                  [@ EXCEPT !.pc = "status_read",
                            !.resps = <<kind>>,
                            !.conn = (kind = "ok"),
                            !.err = IF kind = "ok" THEN None ELSE ErrorOf(kind)]]
    /\ UNCHANGED <<otherVars, max_retries, api_key, statusRows, analysisRows, logs, clock, calls>>

\* _update_status, first half: get the current row, or prepare a new one
StatusRead(w) ==
    /\ wk[w].pc = "status_read"
    /\ IF get_current_status = {}
       THEN wk' = [wk EXCEPT ![w] =
                     [@ EXCEPT !.pc = "status_commit", !.sess_id = 0, !.sess = NewStatusRow]]
       ELSE \E i \in get_current_status :
              wk' = [wk EXCEPT ![w] =
                       [@ EXCEPT !.pc = "status_commit", !.sess_id = i, !.sess = statusRows[i]]]
    /\ UNCHANGED <<otherVars, max_retries, api_key, statusRows, analysisRows, logs, clock, calls>>

\* _update_status, second half: update_connection_status and commit, then
\* check_connection returns
StatusCommit(w) ==
    /\ wk[w].pc = "status_commit"
    /\ clock' = clock + 1
    /\ LET upd == update_connection_status(wk[w].sess, wk[w].conn, wk[w].err, clock')
       IN statusRows' =
            IF wk[w].sess_id = 0
            THEN Append(statusRows, upd)
            ELSE [statusRows EXCEPT ![wk[w].sess_id] = FlushUpdate(@, wk[w].sess, upd)]
    /\ wk' = [wk EXCEPT ![w] =
                [@ EXCEPT !.pc = "done",
                          !.result = IF wk[w].conn THEN ChatOk(0, None) ELSE ChatFail(wk[w].err)]]
    /\ UNCHANGED <<otherVars, max_retries, api_key, analysisRows, logs, calls>>

\* analyze_error_log up to its first request: the row is created and committed,
\* the patterns are recognized, generate_summary is called.  When the commit
\* raises, the row is rolled back and the except block returns the failure
\* dictionary (its own commit has nothing to write).
StartAnalyze(w) ==
    /\ Resting(w)
    /\ calls < MaxAnalyses
    /\ calls' = calls + 1
    /\ clock' = clock + 1
    /\ \E cr_id \in Incidents, committed \in BOOLEAN :
         LET analysis == NewAnalysisRow(cr_id, clock') IN
         IF committed
         THEN /\ analysisRows' = Append(analysisRows, analysis)
              /\ wk' = [wk EXCEPT ![w] =
                          EnterSummary(
                            [IdleWorker EXCEPT
                               !.op = "analyze", !.cr = cr_id,
                               !.arow = Len(analysisRows) + 1,
                               !.obj = AttachPattern(analysis,
                                                     recognize_patterns(logs[cr_id]))])]
         ELSE /\ analysisRows' = analysisRows
              /\ wk' = [wk EXCEPT ![w] =
                          [IdleWorker EXCEPT
                             !.op = "analyze", !.cr = cr_id, !.pc = "done",
                             !.commit_failed = TRUE,
                             !.aresult = AnalysisFailed("commit")]]
    /\ UNCHANGED <<otherVars, max_retries, api_key, statusRows, logs>>

\* analyze_error_log from `analysis.Status = 'completed'` on: the commit, and when
\* it raises the except block, which marks the reloaded row failed and commits again
FinalCommit(w) ==
    /\ wk[w].pc = "final_commit"
    /\ clock' = clock + 1
    /\ \E committed \in BOOLEAN, recommitted \in BOOLEAN :
         LET stored    == analysisRows[wk[w].arow]
             completed == MarkCompleted(wk[w].obj, clock')
             failed    == MarkFailed(stored, "commit", clock')
         IN
         IF committed
         THEN /\ analysisRows' = [analysisRows EXCEPT ![wk[w].arow] =
                                     FlushUpdate(@, stored, completed)]
              /\ wk' = [wk EXCEPT ![w] =
                          [@ EXCEPT !.pc = "done",
                                    !.aresult = AnalysisCompleted(completed)]]
         ELSE IF recommitted
         THEN /\ analysisRows' = [analysisRows EXCEPT ![wk[w].arow] =
                                     FlushUpdate(@, stored, failed)]
              /\ wk' = [wk EXCEPT ![w] =
                          [@ EXCEPT !.pc = "done", !.commit_failed = TRUE,
                                    !.aresult = AnalysisFailed("commit")]]
         ELSE /\ analysisRows' = analysisRows
              /\ wk' = [wk EXCEPT ![w] =
                          [@ EXCEPT !.pc = "done", !.commit_failed = TRUE,
                                    !.raised = TRUE,
                                    !.aresult = NoAnalysisResult]]
    /\ UNCHANGED <<otherVars, max_retries, api_key, statusRows, logs, calls>>

----------------------------------------------------------------------------
(* NLPService.find_similar_logs *)

(* Scores are in units of 1/6000: 0.3 is 1800, a hundredth is 60.  The sums are
   IEEE-754 doubles; a sum that the interpreter computes one unit in the last
   place above (below) the double nearest its decimal value is one unit of the
   model above (below) it, which keeps every comparison with a threshold that is
   a multiple of ten units as the interpreter makes it. *)

\* similarity_score += 0.3 / 0.2 / 0.1, and overlap * 0.4
NameWeight == 1800
ModuleWeight == 1200
TeamWeight == 600
DescriptionWeight == 2400

\* the tiers of ConfidenceLevel: similarity_score > 0.8, similarity_score > 0.6
HighAbove == 4800
MediumAbove == 3600

\* similar_logs[:10] and .limit(100)
TopN == 10
QueryLimit == 100

\* an ErrorLog row, as far as the search reads it; Description is the sequence
\* of its words (Description.split()), <<>> for an empty or missing description
ErrorLogRow(name, module, team, description) ==
    [ErrorName |-> name, Module |-> module, TeamName |-> team,
     Description |-> description]

\* mutant: the words compared as they are written
WordSet_M(description) == {description[k] : k \in DOMAIN description}

\* set(Description.lower().split())
WordSet(description) == {lower(description[k]) : k \in DOMAIN description}

\* `log.Description and current_log.Description`, then `desc_words and current_words`
HasWords(description) == description # <<>>

\* the sums that double arithmetic leaves off the nearest double of their decimal
\* value, by <<name equal, module equal, team equal, twelfths of overlap>>
FloatDrift(n, m, t, twelfths) ==
    IF <<n, m, t, twelfths>> \in
         {<<0, 0, 0, 9>>, <<0, 0, 1, 6>>, <<0, 0, 1, 8>>, <<0, 1, 0, 3>>,
          <<0, 1, 0, 4>>, <<0, 1, 0, 12>>, <<0, 1, 1, 0>>, <<0, 1, 1, 9>>,
          <<0, 1, 1, 12>>, <<1, 0, 0, 9>>, <<1, 0, 1, 6>>, <<1, 0, 1, 8>>,
          <<1, 0, 1, 9>>}
    THEN 1
    ELSE IF <<n, m, t, twelfths>> = <<1, 1, 0, 8>> THEN 0 - 1 ELSE 0

\* mutant: the overlap taken over the words of the candidate only
SimilarityScore_M(log, current) ==
    IF ~current.found THEN 0
    ELSE LET current_log == current.row
             n == IF log.ErrorName = current_log.ErrorName THEN 1 ELSE 0
             m == IF log.Module = current_log.Module THEN 1 ELSE 0
             t == IF log.TeamName = current_log.TeamName THEN 1 ELSE 0
             both == HasWords(log.Description) /\ HasWords(current_log.Description)
             desc_words == IF both THEN WordSet(log.Description) ELSE {}
             current_words == IF both THEN WordSet(current_log.Description) ELSE {}
             inter == Cardinality(desc_words \cap current_words)
             union == Cardinality(desc_words)
         IN n * NameWeight + m * ModuleWeight + t * TeamWeight
            + (IF union = 0 THEN 0 ELSE (DescriptionWeight * inter) \div union)

\* the body of the loop up to the comparison with the threshold: the score of
\* candidate log against the query result current (not found: current_log is None)
SimilarityScore(log, current) ==
    IF ~current.found THEN 0
    ELSE LET current_log == current.row
             n == IF log.ErrorName = current_log.ErrorName THEN 1 ELSE 0
             m == IF log.Module = current_log.Module THEN 1 ELSE 0
             t == IF log.TeamName = current_log.TeamName THEN 1 ELSE 0
             both == HasWords(log.Description) /\ HasWords(current_log.Description)
             desc_words == IF both THEN WordSet(log.Description) ELSE {}
             current_words == IF both THEN WordSet(current_log.Description) ELSE {}
             inter == Cardinality(desc_words \cap current_words)
             union == Cardinality(desc_words \cup current_words)
             twelfths == IF union = 0 THEN 0 ELSE (12 * inter) \div union
         IN n * NameWeight + m * ModuleWeight + t * TeamWeight
            + (IF union = 0 THEN 0 ELSE (DescriptionWeight * inter) \div union)
            + FloatDrift(n, m, t, twelfths)

\* round(similarity_score, 2)
Round2(score) == ((score + 30) \div 60) * 60

\* 'high' if similarity_score > 0.8 else ('medium' if similarity_score > 0.6 else 'low')
ConfidenceLevel(score) ==
    IF score > HighAbove THEN "high"
    ELSE IF score > MediumAbove THEN "medium" ELSE "low"

\* the incident the other rows of the model are compared with
TargetLog == ErrorLogRow("E1", "M1", "T1", <<"Db", "up">>)

\* descriptions: none, and word overlaps with TargetLog of 0, 1/3, 1/2 and 1
Descriptions ==
    {<<>>, <<"io">>, <<"db", "on">>, <<"DB">>, <<"up", "db">>}

LogProfiles ==
    {ErrorLogRow(n, m, t, d) :
        n \in {"E1", "E2"}, m \in {"M1", "M2"}, t \in {"T1", "T2"},
        d \in Descriptions}

\* rows scoring 1.0, 0.8, 0.7, 0.6 (twice), 0.5, 0.4333 and 0.0 against TargetLog
PairProfiles ==
    {ErrorLogRow("E1", "M1", "T1", <<"up", "db">>),
     ErrorLogRow("E1", "M1", "T1", <<"DB">>),
     ErrorLogRow("E1", "M2", "T2", <<"up", "db">>),
     ErrorLogRow("E1", "M1", "T1", <<>>),
     ErrorLogRow("E2", "M1", "T2", <<"up", "db">>),
     ErrorLogRow("E1", "M1", "T2", <<>>),
     ErrorLogRow("E1", "M2", "T2", <<"db", "on">>),
     ErrorLogRow("E2", "M2", "T2", <<"io">>)}

\* tables of two or three rows
SmallPools ==
    {<<TargetLog, p>> : p \in LogProfiles}
    \cup {<<TargetLog, pq[1], pq[2]>> : pq \in PairProfiles \X PairProfiles}

\* tables with more candidates than the search returns: same name, module and
\* team as TargetLog, the descriptions in turn
TurnDescriptions ==
    << <<>>, <<"io">>, <<"db", "on">>, <<"DB">>, <<"up", "db">> >>

LargePools ==
    {<<TargetLog>> \o
       [i \in 1..(TopN + 2) |->
          ErrorLogRow("E1", "M1", "T1", TurnDescriptions[((i + d) % 5) + 1])] :
     d \in 0..2}

\* the arguments of the searches: an unknown incident (0) or one of the first
\* rows; a threshold of 0.4317, 0.7 (the default) or 0.9
SearchIds == {0, 1, 2}
Thresholds == {2590, 4200, 5400}

\* the candidate whose SimilarLogMatch may fail to commit
FailingIds == {3}

\* no similarity search has been made yet
NoSim ==
    [calls |-> 0, cr_id |-> 0, threshold |-> 0, success |-> FALSE,
     similar_logs |-> <<>>, total_found |-> 0, first_row |-> 1, failed |-> {}]

\* ErrorLog.query.filter(ErrorLog.Cr_ID != cr_id).limit(100).all(): the ids of
\* the other rows, in the order of the table
OtherLogs(cr_id) ==
    LET ids == SelectSeq([i \in DOMAIN errorLogs |-> i], LAMBDA i : i # cr_id)
    IN SubSeq(ids, 1, IF Len(ids) < QueryLimit THEN Len(ids) ELSE QueryLimit)

\* ErrorLog.query.filter_by(Cr_ID=cr_id).first()
CurrentLog(cr_id) ==
    IF cr_id \in DOMAIN errorLogs
    THEN [found |-> TRUE, row |-> errorLogs[cr_id]]
    ELSE [found |-> FALSE, row |-> ErrorLogRow(None, None, None, <<>>)]

\* the item appended to similar_logs, and the SimilarLogMatch row of a match
SimilarItem(id, score) == [Cr_ID |-> id, SimilarityScore |-> Round2(score)]
SimilarLogMatch(cr_id, id, score) ==
    [Source_Cr_ID |-> cr_id, Target_Cr_ID |-> id, SimilarityScore |-> score,
     MatchingMethod |-> "heuristic", ConfidenceLevel |-> ConfidenceLevel(score)]

\* mutant: the default threshold 0.7 in place of the argument
ReachesThreshold_M(similarity_score, threshold) == similarity_score >= 4200

\* `if similarity_score >= threshold`
ReachesThreshold(similarity_score, threshold) == similarity_score >= threshold

\* mutant: a match whose commit raises is dropped from the list too
Matched_M(acc, cr_id, id, similarity_score, failed) ==
    IF id \in failed THEN acc
    ELSE [similar_logs |-> Append(acc.similar_logs, SimilarItem(id, similarity_score)),
          rows |-> Append(acc.rows, SimilarLogMatch(cr_id, id, similarity_score))]

\* the body of `if similarity_score >= threshold`: the item is appended, then
\* the match is added and committed; a commit that raises (id in failed) is
\* rolled back and leaves the rows committed before in place
Matched(acc, cr_id, id, similarity_score, failed) ==
    [similar_logs |-> Append(acc.similar_logs, SimilarItem(id, similarity_score)),
     rows |-> IF id \in failed THEN acc.rows
              ELSE Append(acc.rows, SimilarLogMatch(cr_id, id, similarity_score))]

\* the loop over the candidates from position k on; acc holds similar_logs and
\* the rows committed so far
RECURSIVE ScanLogs(_, _, _, _, _, _)
ScanLogs(ids, k, cr_id, threshold, failed, acc) ==
    IF k > Len(ids) THEN acc
    ELSE LET id == ids[k]
             similarity_score == SimilarityScore(errorLogs[id], CurrentLog(cr_id))
         IN IF ReachesThreshold(similarity_score, threshold)
            THEN ScanLogs(ids, k + 1, cr_id, threshold, failed,
                          Matched(acc, cr_id, id, similarity_score, failed))
            ELSE ScanLogs(ids, k + 1, cr_id, threshold, failed, acc)

\* list.sort(key=SimilarityScore, reverse=True): a stable sort, items of equal
\* key keep their order
RECURSIVE SortByScore(_, _)
SortByScore(items, k) ==
    IF k > Len(items) THEN <<>>
    ELSE LET rest == SortByScore(items, k + 1)
             x == items[k]
             before == SelectSeq(rest, LAMBDA y : y.SimilarityScore > x.SimilarityScore)
             after == SelectSeq(rest, LAMBDA y : y.SimilarityScore <= x.SimilarityScore)
         IN before \o <<x>> \o after

\* mutant: the whole sorted list returned
TopOf_M(sorted) == sorted

\* similar_logs[:10]
TopOf(sorted) == SubSeq(sorted, 1, IF Len(sorted) < TopN THEN Len(sorted) ELSE TopN)

\* NLPService.find_similar_logs(cr_id, threshold=threshold)
FindSimilar ==
    /\ sim.calls < MaxSearches
    /\ \E cr_id \in SearchIds, threshold \in Thresholds,
          failed \in SUBSET (DOMAIN errorLogs \cap FailingIds) :
         /\ LET found == ScanLogs(OtherLogs(cr_id), 1, cr_id, threshold, failed,
                                  [similar_logs |-> <<>>, rows |-> <<>>])
                sorted == SortByScore(found.similar_logs, 1)
            IN /\ matchRows' = matchRows \o found.rows
               /\ sim' = [calls |-> sim.calls + 1, cr_id |-> cr_id,
                          threshold |-> threshold, success |-> TRUE,
                          similar_logs |-> TopOf(sorted),
                          total_found |-> Len(found.similar_logs),
                          first_row |-> Len(matchRows) + 1, failed |-> failed]
    /\ UNCHANGED <<pipelineVars, errorLogs, fn>>

----------------------------------------------------------------------------
(* LogReport.get (backend/app.py), the report of an incident *)

\* threshold=0.7, the default LogReport.get leaves in place
DefaultThreshold == 4200

\* mutant: a match whose pair already has a row updates that row's score in
\* place of adding a row
find_similar_logs_M(cr_id, threshold, failed) ==
    LET found == ScanLogs(OtherLogs(cr_id), 1, cr_id, threshold, failed,
                          [similar_logs |-> <<>>, rows |-> <<>>])
        sorted == SortByScore(found.similar_logs, 1)
        fresh(row) == \A r \in DOMAIN matchRows :
                         \/ matchRows[r].Source_Cr_ID # row.Source_Cr_ID
                         \/ matchRows[r].Target_Cr_ID # row.Target_Cr_ID
    IN [rows |-> SelectSeq(found.rows, fresh),
        sim |-> [calls |-> sim.calls + 1, cr_id |-> cr_id,
                 threshold |-> threshold, success |-> TRUE,
                 similar_logs |-> TopOf(sorted),
                 total_found |-> Len(found.similar_logs),
                 first_row |-> Len(matchRows) + 1, failed |-> failed]]

\* NLPService.find_similar_logs(cr_id, threshold=threshold) as a callee: the
\* rows it commits and the dictionary it returns
find_similar_logs(cr_id, threshold, failed) ==
    LET found == ScanLogs(OtherLogs(cr_id), 1, cr_id, threshold, failed,
                          [similar_logs |-> <<>>, rows |-> <<>>])
        sorted == SortByScore(found.similar_logs, 1)
    IN [rows |-> found.rows,
        sim |-> [calls |-> sim.calls + 1, cr_id |-> cr_id,
                 threshold |-> threshold, success |-> TRUE,
                 similar_logs |-> TopOf(sorted),
                 total_found |-> Len(found.similar_logs),
                 first_row |-> Len(matchRows) + 1, failed |-> failed]]

\* AIAnalysisResult(Cr_ID=cr_id, AnalysisType='summary', Status='completed')
NewSummaryRow(cr_id) ==
    [NewAnalysisRow(cr_id, 0) EXCEPT !.AnalysisType = "summary", !.Status = "completed"]

\* json.dumps of a list of strings
RECURSIVE DumpFrom(_, _)
DumpFrom(items, k) ==
    IF k > Len(items) THEN ""
    ELSE (IF k > 1 THEN ", " ELSE "") \o "\"" \o items[k] \o "\""
            \o DumpFrom(items, k + 1)
json_dumps(items) == "[" \o DumpFrom(items, 1) \o "]"

\* `Persist AI summary and suggestions best-effort`: the fields set on
\* analysis_row; stored solutions are dumped as they were loaded
PersistReport(row, summary_result, solutions_result) ==
    LET with_summary ==
          IF summary_result.success
          THEN [row EXCEPT !.Summary = summary_result.summary,
                           !.EstimatedSeverity = summary_result.severity,
                           !.Keywords = summary_result.keywords]
          ELSE row
    IN IF solutions_result.success
       THEN [with_summary EXCEPT !.SuggestedSolutions =
                IF solutions_result.message = "stored" THEN @
                ELSE json_dumps(solutions_result.solutions)]
       ELSE with_summary

\* LogReport.get up to its first completion request: the incident is found,
\* AIAnalysisResult.query.filter_by(Cr_ID=cr_id).first() loads a row of the
\* incident (the query has no order) or none
StartReport(w) ==
    /\ Resting(w)
    /\ calls < MaxAnalyses
    /\ calls' = calls + 1
    /\ \E cr_id \in Incidents \cap DOMAIN errorLogs :
         LET mine == {i \in DOMAIN analysisRows : analysisRows[i].Cr_ID = cr_id}
         IN \E first \in (IF mine = {} THEN {0} ELSE mine) :
               wk' = [wk EXCEPT ![w] =
                        EnterReportSummary(
                          [IdleWorker EXCEPT !.op = "report", !.cr = cr_id,
                                             !.arow = first])]
    /\ UNCHANGED <<otherVars, max_retries, api_key, statusRows, analysisRows, logs, clock>>

\* LogReport.get from the persisting on: the row is created when the incident
\* had none, the summary and the solutions are set and committed (a commit that
\* raises is rolled back), then find_similar_logs(cr_id) runs with its default
\* threshold and the report is returned
ReportPersist(w) ==
    /\ wk[w].pc = "report_persist"
    /\ \E committed \in BOOLEAN,
          failed \in SUBSET (DOMAIN errorLogs \cap FailingIds) :
         LET wr == wk[w]
             loaded == IF wr.arow = 0 THEN NewSummaryRow(wr.cr)
                       ELSE analysisRows[wr.arow]
             changed == PersistReport(loaded, wr.rsummary, wr.rsolutions)
             search == find_similar_logs(wr.cr, DefaultThreshold, failed)
         IN /\ analysisRows' =
                 IF ~committed THEN analysisRows
                 ELSE IF wr.arow = 0 THEN Append(analysisRows, changed)
                 ELSE [analysisRows EXCEPT ![wr.arow] = FlushUpdate(@, loaded, changed)]
            /\ matchRows' = matchRows \o search.rows
            /\ sim' = search.sim
            /\ wk' = [wk EXCEPT ![w] =
                        [@ EXCEPT !.pc = "done", !.rsummary = NoGenAIResult,
                                  !.rsolutions = NoGenAIResult]]
    /\ UNCHANGED <<max_retries, api_key, statusRows, logs, clock, calls, errorLogs, fn>>

----------------------------------------------------------------------------
(* Calls of functions without side effects *)

\* no function has been called yet; the functions keep nothing between two
\* calls, and a behaviour makes one call
NoCall == [op |-> None, input |-> None, output |-> None]

\* what _make_chat_request can hand to its caller
ChatResults ==
    {ChatOk(t, c) : t \in Tokens, c \in Contents}
    \cup {ChatFail(ErrorOf(k)) : k \in RespKinds \ {"ok"}}
    \cup {NoResult}

\* OpenAIService.generate_summary, for each result of its completion request
CallGenerateSummary ==
    /\ fn.op = None
    /\ \E res \in ChatResults :
         fn' = [op |-> "generate_summary", input |-> res, output |-> ParseSummary(res)]
    /\ UNCHANGED <<pipelineVars, errorLogs, matchRows, sim>>

\* one line of a log for each rule of the table, in the order of the table
RuleLines == <<
    "Kernel panic - not syncing: Fatal exception",
    "Process 4312 received SIGSEGV",
    "Out of memory: Kill process 991",
    "*** stack smashing detected ***",
    "mount: No such device",
    "blk_update_request: I/O error, dev sda",
    "open /etc/shadow: Permission denied",
    "connect: Connection refused",
    "msm_watchdog: Watchdog bite received",
    "ANR in com.android.phone",
    "java.lang.NullPointerException at Main" >>

\* the log contents recognize_patterns is called on: None, texts without a line
\* of the table, one line of the table, and two lines in either order
LogContents ==
    {None, "", "All systems nominal", "OutOfMemoryError: Java heap space",
     "2025-08-28 04:15:33 ERROR [ETLPipeline] OutOfMemoryError: Java heap space"}
    \cup {RuleLines[i] : i \in DOMAIN RuleLines}
    \cup {RuleLines[p[1]] \o "\n" \o RuleLines[p[2]] :
             p \in {q \in (DOMAIN RuleLines) \X (DOMAIN RuleLines) : q[1] # q[2]}}

\* ErrorPatternRecognizer.recognize_patterns called on a log content
CallRecognizePatterns ==
    /\ fn.op = None
    /\ \E log_content \in LogContents :
         fn' = [op |-> "recognize_patterns", input |-> log_content,
                output |-> recognize_patterns(TextOf(log_content))]
    /\ UNCHANGED <<pipelineVars, errorLogs, matchRows, sim>>

\* the error logs suggest_solutions is called on
ErrorLogDicts ==
    {ErrorLogDict(n, d, t, p) :
        n \in {None, "Login Error", "Query Timeout"},
        d \in {None, "Heap exhausted", "disk full"},
        t \in {None, "Backend", "QA"},
        p \in {None, "trace"}}

\* what OpenAIService.generate_summary / suggest_solutions return on a log
\* content: log_content[:8000] raises on None and the except branch answers
SummaryResults(log_content) ==
    IF log_content = None THEN {AiStepFail("TypeError")}
    ELSE {ParseSummary(res) : res \in ChatResults}
SolutionsResults(log_content) ==
    IF log_content = None THEN {AiStepFail("TypeError")}
    ELSE {ParseSolutions(res) : res \in ChatResults}

\* GenAIService.generate_summary(log_content)
CallGenAISummary ==
    /\ fn.op = None
    /\ \E log_content \in LogContents :
         \E result \in SummaryResults(log_content) :
            fn' = [op |-> "genai_summary",
                   input |-> [log_content |-> log_content, result |-> result],
                   output |-> GenAI_generate_summary(TextOf(log_content), result)]
    /\ UNCHANGED <<pipelineVars, errorLogs, matchRows, sim>>

\* GenAIService.suggest_solutions(error_log)
CallGenAISolutions ==
    /\ fn.op = None
    /\ \E error_log \in ErrorLogDicts :
         \E result \in SolutionsResults(SolutionsLogContent(error_log)) :
            fn' = [op |-> "genai_solutions",
                   input |-> [error_log |-> error_log, result |-> result],
                   output |-> GenAI_suggest_solutions(error_log, result)]
    /\ UNCHANGED <<pipelineVars, errorLogs, matchRows, sim>>

----------------------------------------------------------------------------
(* Specifications *)

InitCommon ==
    /\ max_retries \in 0..MaxRetriesBound
    /\ analysisRows = <<>>
    /\ clock = 0
    /\ calls = 0
    /\ wk = [w \in Workers |-> IdleWorker]
    /\ errorLogs = <<>>
    /\ matchRows = <<>>
    /\ sim = NoSim
    /\ fn = NoCall

\* an empty store
Init ==
    /\ InitCommon
    /\ api_key \in BOOLEAN
    /\ statusRows = <<>>
    /\ logs = [i \in Incidents |-> Text({})]

\* one thread: completion calls and connection checks, one after the other
Next ==
    \/ StartChat(1)
    \/ ChatAttempt(1)
    \/ UsageRead(1)
    \/ UsageCommit(1)
    \/ StartCheck(1)
    \/ Probe(1)
    \/ StatusRead(1)
    \/ StatusCommit(1)

Spec == Init /\ [][Next]_vars

\* a store whose status row exists (as the first connection check leaves it)
InitConc ==
    /\ InitCommon
    /\ api_key = TRUE
    /\ statusRows = <<update_connection_status(NewStatusRow, TRUE, None, 0)>>
    /\ logs = [i \in Incidents |-> Text({})]

\* two threads, each with its own session, making completion calls
NextConc ==
    \E w \in Workers :
        \/ StartChat(w)
        \/ ChatAttempt(w)
        \/ UsageRead(w)
        \/ UsageCommit(w)

SpecConc == InitConc /\ [][NextConc]_vars

\* an empty store and a configured key
InitChecks ==
    /\ InitCommon
    /\ api_key = TRUE
    /\ statusRows = <<>>
    /\ logs = [i \in Incidents |-> Text({})]

\* two threads, each with its own session, calling check_connection
NextChecks ==
    \E w \in Workers :
        \/ StartCheck(w)
        \/ Probe(w)
        \/ StatusRead(w)
        \/ StatusCommit(w)

SpecChecks == InitChecks /\ [][NextChecks]_vars

\* an empty store and incidents with their log contents; the client makes one
\* request per call or none (the retry loop itself is checked under Spec)
InitAnalyze ==
    /\ InitCommon
    /\ max_retries \in {0, 1}
    /\ api_key = TRUE
    /\ statusRows = <<>>
    /\ logs \in [Incidents -> TextSamples]

\* one thread running analyze_error_log on incidents, one run after the other
NextAnalyze ==
    \/ StartAnalyze(1)
    \/ ChatAttempt(1)
    \/ UsageRead(1)
    \/ FinalCommit(1)

SpecAnalyze == InitAnalyze /\ [][NextAnalyze]_vars

\* the functions without side effects, called on their own
InitCalls ==
    /\ InitCommon
    /\ max_retries = 1
    /\ api_key = TRUE
    /\ statusRows = <<>>
    /\ logs = [i \in Incidents |-> Text({})]

NextCalls ==
    \/ CallGenerateSummary
    \/ CallRecognizePatterns
    \/ CallGenAISummary
    \/ CallGenAISolutions

SpecCalls == InitCalls /\ [][NextCalls]_vars

\* a table of incidents and no SimilarLogMatch row; searches one after the other
InitSimilar ==
    /\ max_retries = 1
    /\ api_key = TRUE
    /\ statusRows = <<>>
    /\ analysisRows = <<>>
    /\ logs = [i \in Incidents |-> Text({})]
    /\ clock = 0
    /\ calls = 0
    /\ wk = [w \in Workers |-> IdleWorker]
    /\ errorLogs \in SmallPools \cup LargePools
    /\ matchRows = <<>>
    /\ sim = NoSim
    /\ fn = NoCall

NextSimilar == FindSimilar

SpecSimilar == InitSimilar /\ [][NextSimilar]_vars

\* the incidents of the reports: the first and the third score 1.0 against each
\* other; the second has no description and scores 0.6 against both
ReportPool ==
    <<TargetLog, ErrorLogRow("E1", "M1", "T1", <<>>),
      ErrorLogRow("E1", "M1", "T1", <<"up", "db">>)>>

\* the log previews of the incidents: the second has none
ReportLogs == [i \in Incidents |-> IF i = 1 THEN Text({"segmentation_fault"}) ELSE NoText]

\* the AIAnalysisResult rows the reports find: none, or the row one run of
\* analyze_error_log on the first incident has left, with both AI steps
\* answered, with both failed, or with its last commit failed
AnalyzedRow == AttachPattern(NewAnalysisRow(1, 1), recognize_patterns(ReportLogs[1]))
ReportStores ==
    {<<>>,
     <<MarkCompleted(
         AttachSolutions(
           AttachSummary(AnalyzedRow, ParseSummary(ChatOk(1, "object"))),
           ParseSolutions(ChatOk(1, "object"))), 2)>>,
     <<MarkCompleted(AnalyzedRow, 2)>>,
     <<MarkFailed(NewAnalysisRow(1, 1), "commit", 2)>>}

\* the incidents and the rows of earlier analyses; the client makes one request
\* per call
InitReport ==
    /\ max_retries = 1
    /\ api_key = TRUE
    /\ statusRows = <<>>
    /\ analysisRows \in ReportStores
    /\ logs = ReportLogs
    /\ clock = 2
    /\ calls = 0
    /\ wk = [w \in Workers |-> IdleWorker]
    /\ errorLogs = ReportPool
    /\ matchRows = <<>>
    /\ sim = NoSim
    /\ fn = NoCall

\* one thread: reports and similarity searches with the default threshold, one
\* after the other
NextReport ==
    \/ StartReport(1)
    \/ ChatAttempt(1)
    \/ UsageRead(1)
    \/ ReportPersist(1)
    \/ (Resting(1) /\ FindSimilar /\ sim'.threshold = DefaultThreshold)

SpecReport == InitReport /\ [][NextReport]_vars

----------------------------------------------------------------------------
(* Properties of the completion client *)

\* a finished call of _make_chat_request made on its own
ChatDone(w) == wk[w].op = "chat" /\ wk[w].pc = "done"

AllFailed(resps) == \A i \in 1..Len(resps) : resps[i] \in {"http_error", "timeout"}

NoRequestAfterOk(resps) == \A i \in 1..Len(resps) : resps[i] = "ok" => i = Len(resps)

\* C3 as stated: when every answer is a 500 or a timeout the client makes
\* max_retries + 1 requests and then returns success=false; no request follows a 200.
C3_Original ==
    \A w \in Workers :
        ChatDone(w) =>
            /\ (wk[w].resps # <<>> /\ AllFailed(wk[w].resps)) =>
                  /\ Len(wk[w].resps) = max_retries + 1
                  /\ wk[w].result.success = "false"
            /\ NoRequestAfterOk(wk[w].resps)

\* C3 amended: when every answer is a 500 or a timeout the client makes exactly
\* max_retries requests in all (max_retries - 1 retries after the first); it then
\* returns success=false when max_retries >= 1, and returns no result, having sent
\* nothing, when max_retries = 0; no request follows a 200.
C3_RetryCount ==
    \A w \in Workers :
        ChatDone(w) =>
            /\ AllFailed(wk[w].resps) =>
                  /\ Len(wk[w].resps) = max_retries
                  /\ max_retries >= 1 => wk[w].result.success = "false"
                  /\ max_retries = 0 => wk[w].result = NoResult
            /\ NoRequestAfterOk(wk[w].resps)

\* a call that used its whole budget of two or more requests on failures
C3_Witness ==
    \E w \in Workers :
        /\ ChatDone(w)
        /\ max_retries >= 2
        /\ Len(wk[w].resps) = max_retries
        /\ AllFailed(wk[w].resps)
        /\ wk[w].result.success = "false"

\* C4 as stated: an exception other than a timeout on a non-final attempt is
\* followed by a sleep of 2^attempt seconds and by a further attempt.
C4_Claim ==
    \A w \in Workers :
        wk[w].op = "chat" =>
            \A i \in 1..Len(wk[w].resps) :
                (wk[w].resps[i] = "conn_error" /\ i < max_retries) =>
                    /\ Len(wk[w].sleeps) >= i
                    /\ wk[w].sleeps[i] = Backoff(i - 1)
                    /\ wk[w].pc = "done" => Len(wk[w].resps) > i

\* C5 as stated: for every max_retries >= 0 a completion call never raises and
\* returns a result that carries a success flag.
C5_Claim ==
    \A w \in Workers :
        ChatDone(w) =>
            /\ ~wk[w].raised
            /\ wk[w].result.success \in {"true", "false"}

\* C6 as stated: when two threads have each made one successful completion call,
\* however interleaved, the status row (which started at 0 calls and 0 tokens)
\* counts two calls and the tokens of both.
C6_Claim ==
    (/\ calls = 2
     /\ \A w \in Workers : ChatDone(w) /\ wk[w].result.success = "true") =>
        \A i \in DOMAIN statusRows :
            /\ statusRows[i].TotalApiCalls = 2
            /\ statusRows[i].TotalTokensUsed =
                  wk[1].result.tokens_used + wk[2].result.tokens_used

\* TotalTokensUsed of the current status row; 0 while there is no row
CurrentTotalTokens ==
    IF statusRows = <<>> THEN 0
    ELSE statusRows[CHOOSE i \in get_current_status : TRUE].TotalTokensUsed

\* C7 as stated, for calls made one after the other from any store, the empty
\* one included: the current status row's TotalTokensUsed is the sum of the tokens
\* of the successful calls, that is, every successful call has added its tokens
\* to the current row's total when it returns.
C7_Claim ==
    [][\A w \in Workers :
          (/\ wk[w].op = "chat"
           /\ wk[w].pc \in {"usage_read", "usage_commit"}
           /\ wk'[w].pc = "done") =>
              /\ statusRows' # <<>>
              /\ CurrentTotalTokens' = CurrentTotalTokens + wk[w].pending.tokens_used]_vars

\* C8 as stated: after a completion call the status row tells the call's outcome:
\* a failure sets connectivity false and records the error, a success sets
\* connectivity true and the last-success time.
C8_Claim ==
    \A w \in Workers :
        (ChatDone(w) /\ statusRows # <<>>) =>
            \A i \in get_current_status :
                /\ wk[w].result.success = "false" =>
                      /\ ~statusRows[i].IsConnected
                      /\ statusRows[i].LastErrorMessage = wk[w].result.error
                /\ wk[w].result.success = "true" =>
                      /\ statusRows[i].IsConnected
                      /\ statusRows[i].LastSuccessfulCall = clock

----------------------------------------------------------------------------
(* Properties of analyze_error_log *)

\* a call of analyze_error_log that has returned (or raised)
AnalyzeDone(w) == wk[w].op = "analyze" /\ wk[w].pc = "done"

\* a returned call all of whose commits succeeded, and the row it created
Analyzed(w) == AnalyzeDone(w) /\ ~wk[w].commit_failed
RowOf(w) == analysisRows[wk[w].arow]

Terminal == {"completed", "failed"}

\* C1: whatever pattern recognition and the two AI calls produce, the result
\* analyze_error_log returns has status completed or failed, and so has the row it
\* created when the call returns (the writes to the store succeeding).
C1_Terminal ==
    \A w \in Workers :
        Analyzed(w) =>
            /\ wk[w].aresult.status \in Terminal
            /\ RowOf(w).Status \in Terminal

\* a run in which pattern recognition failed and both AI calls failed
C1_Witness ==
    \E w \in Workers :
        /\ Analyzed(w)
        /\ ~recognize_patterns(logs[wk[w].cr]).success
        /\ ~wk[w].summary_ok
        /\ ~wk[w].solutions_ok
        /\ RowOf(w).Status = "completed"

\* a run in which both AI calls were made and failed
C1_WitnessAiFailed ==
    \E w \in Workers :
        /\ Analyzed(w)
        /\ logs[wk[w].cr].valid
        /\ ~wk[w].summary_ok
        /\ ~wk[w].solutions_ok
        /\ wk[w].aresult.status = "completed"

\* the rows in a terminal status of one incident and of analysis type complete
TerminalRows(cr_id) ==
    {i \in DOMAIN analysisRows :
        /\ analysisRows[i].Cr_ID = cr_id
        /\ analysisRows[i].AnalysisType = "complete"
        /\ analysisRows[i].Status \in Terminal}

\* C2 as stated: after any sequence of analyze_error_log calls the store holds at
\* most one terminal row of type complete for each incident.
C2_Claim ==
    \A cr_id \in Incidents : Cardinality(TerminalRows(cr_id)) <= 1

C11_HeuristicOnly ==
    \A w \in Workers :
        (Analyzed(w) /\ ~wk[w].summary_ok /\ ~wk[w].solutions_ok) =>
            LET pattern_result == recognize_patterns(logs[wk[w].cr]) IN
            /\ wk[w].called = <<"summary", "solutions">>
            /\ wk[w].aresult.success = "true"
            /\ wk[w].aresult.status = "completed"
            /\ RowOf(w).Status = "completed"
            /\ pattern_result.success =>
                  /\ RowOf(w).ErrorPattern = pattern_result.primary_pattern
                  /\ RowOf(w).ErrorCategory = pattern_result.primary_category
                  /\ RowOf(w).EstimatedSeverity = pattern_result.estimated_severity

\* a run on a text with matching rules in which both requests were sent and failed
C11_Witness ==
    \E w \in Workers :
        /\ Analyzed(w)
        /\ max_retries >= 1
        /\ logs[wk[w].cr].valid
        /\ logs[wk[w].cr].hits # {}
        /\ ~wk[w].summary_ok
        /\ ~wk[w].solutions_ok
        /\ RowOf(w).ErrorPattern = "segmentation_fault"
        /\ RowOf(w).EstimatedSeverity = "critical"

\* C13 as stated: when a commit of the AnalysisResult raises during
\* analyze_error_log, no exception escapes the call and the caller still receives
\* a result object.
C13_Claim ==
    \A w \in Workers :
        (AnalyzeDone(w) /\ wk[w].commit_failed) =>
            /\ ~wk[w].raised
            /\ wk[w].aresult # NoAnalysisResult

\* C17: two runs of analyze_error_log on the same incident and text leave results
\* with the same ErrorPattern, ErrorCategory and EstimatedSeverity, whatever the
\* AI calls of the two runs returned.
C17_SamePatternFields ==
    \A i \in DOMAIN analysisRows, j \in DOMAIN analysisRows :
        (/\ analysisRows[i].Cr_ID = analysisRows[j].Cr_ID
         /\ analysisRows[i].Status = "completed"
         /\ analysisRows[j].Status = "completed") =>
            /\ analysisRows[i].ErrorPattern = analysisRows[j].ErrorPattern
            /\ analysisRows[i].ErrorCategory = analysisRows[j].ErrorCategory
            /\ analysisRows[i].EstimatedSeverity = analysisRows[j].EstimatedSeverity

\* two completed runs on one incident whose text matches rules: the summary call
\* failed in one and succeeded in the other
C17_Witness ==
    \E i \in DOMAIN analysisRows, j \in DOMAIN analysisRows :
        /\ i # j
        /\ analysisRows[i].Cr_ID = analysisRows[j].Cr_ID
        /\ analysisRows[i].Status = "completed"
        /\ analysisRows[j].Status = "completed"
        /\ analysisRows[i].Summary = None
        /\ analysisRows[j].Summary # None
        /\ analysisRows[i].ErrorPattern = "segmentation_fault"
        /\ analysisRows[j].EstimatedSeverity = "critical"

----------------------------------------------------------------------------
(* Properties of generate_summary and of the pattern recognizer *)

\* C12 as stated: whenever the completion request succeeds, generate_summary
\* returns success=true; content that is not a JSON object of the asked shape
\* (plain text, or JSON that is a list, a number or a string) gives the plain-text
\* summary with severity medium.
C12_Claim ==
    (fn.op = "generate_summary" /\ fn.input.success = "true") =>
        /\ fn.output.success
        /\ fn.input.content # "object" =>
              /\ fn.output.summary = "ai_text"
              /\ fn.output.severity = "medium"

\* the rules (positions in the table) named in a result's matched_patterns
MatchedRules(out) ==
    {r \in DOMAIN ERROR_PATTERNS :
        \E k \in DOMAIN out.matched_patterns :
            out.matched_patterns[k] = ERROR_PATTERNS[r].name}

\* critical > high > medium > low
SeverityRank(sev) ==
    CASE sev = "critical" -> 4 [] sev = "high" -> 3 [] sev = "medium" -> 2
      [] sev = "low" -> 1

\* the first rule in table order among those of the highest severity
TopRule(rules) ==
    CHOOSE r \in rules :
        \A q \in rules :
            \/ SeverityRank(ERROR_PATTERNS[q].severity)
                  < SeverityRank(ERROR_PATTERNS[r].severity)
            \/ /\ ERROR_PATTERNS[q].severity = ERROR_PATTERNS[r].severity
               /\ r <= q

\* C14: when at least one rule matches, estimated_severity is the highest severity
\* among the matched rules and primary_category is the category of the first rule
\* in table order that has that severity.
C14_HighestSeverity ==
    (fn.op = "recognize_patterns" /\ fn.output.success
       /\ fn.output.matched_patterns # <<>>) =>
        LET top == ERROR_PATTERNS[TopRule(MatchedRules(fn.output))] IN
        /\ fn.output.estimated_severity = top.severity
        /\ fn.output.primary_category = top.category

\* a text in which two rules of the highest severity match, and a text in which
\* the first matched rule is not of the highest severity
C14_Witness ==
    /\ fn.op = "recognize_patterns"
    /\ fn.output.success
    /\ fn.output.matched_patterns = <<"kernel_panic", "buffer_overflow">>
    /\ fn.output.primary_category = "kernel"

C14_WitnessLaterRule ==
    /\ fn.op = "recognize_patterns"
    /\ fn.output.success
    /\ fn.output.matched_patterns = <<"segmentation_fault", "buffer_overflow">>
    /\ fn.output.primary_category = "security"
    /\ fn.output.estimated_severity = "critical"

\* C15 as stated: when no rule matches (the empty string included),
\* recognize_patterns returns no matches, no primary pattern and the estimated
\* severity medium, without raising.
C15_Claim ==
    (fn.op = "recognize_patterns" /\ fn.input # None
       /\ TextOf(fn.input).hits = {}) =>
        /\ fn.output.success
        /\ fn.output.matched_patterns = <<>>
        /\ fn.output.primary_pattern = None
        /\ fn.output.estimated_severity = "medium"

\* str contains sub
Contains(str, sub) ==
    \E i \in 1..(Len(str) - Len(sub) + 1) : SubSeq(str, i, i + Len(sub) - 1) = sub

\* C16 as stated: for a text containing "OutOfMemoryError: Java heap space",
\* recognize_patterns returns the primary category memory and an estimated
\* severity of high or critical.
C16_Claim ==
    (fn.op = "recognize_patterns" /\ fn.input # None
       /\ Contains(fn.input, "OutOfMemoryError: Java heap space")) =>
        /\ fn.output.primary_category = "memory"
        /\ fn.output.estimated_severity \in {"high", "critical"}

----------------------------------------------------------------------------
(* Properties of find_similar_logs *)

\* the score the last search computed for a candidate
ScoreOf(id) == SimilarityScore(errorLogs[id], CurrentLog(sim.cr_id))

\* the candidates of the last search and those that reached its threshold
CandidateIds == {id \in DOMAIN errorLogs : id # sim.cr_id}
ReachingIds == {id \in CandidateIds : ScoreOf(id) >= sim.threshold}

\* the rows the last search added to similar_log_matches
NewMatchRows == {r \in DOMAIN matchRows : r >= sim.first_row}

\* when no candidate reaches the threshold the search returns an empty list,
\* total_found = 0, and adds no row
NothingBelowThreshold ==
    ReachingIds = {} =>
        /\ sim.similar_logs = <<>>
        /\ sim.total_found = 0
        /\ NewMatchRows = {}

\* C18 as stated: every match returned reports a SimilarityScore not below the
\* threshold, every row the search persists has a score not below the threshold,
\* and a search whose best candidate is below the threshold returns nothing.
C18_Original ==
    sim.calls > 0 =>
        /\ \A k \in DOMAIN sim.similar_logs :
              sim.similar_logs[k].SimilarityScore >= sim.threshold
        /\ \A r \in NewMatchRows : matchRows[r].SimilarityScore >= sim.threshold
        /\ NothingBelowThreshold

\* C18 amended: every match returned is a candidate whose computed score is not
\* below the threshold, and reports that score rounded to two decimals (at most
\* 0.005 away from it, so possibly below a threshold of more than two decimals);
\* every row the search persists carries the unrounded score of its candidate,
\* not below the threshold; a search whose best candidate is below the threshold
\* returns nothing.
C18_ScoreReachesThreshold ==
    sim.calls > 0 =>
        /\ \A k \in DOMAIN sim.similar_logs :
              LET item == sim.similar_logs[k] IN
              /\ item.Cr_ID \in ReachingIds
              /\ item.SimilarityScore % 60 = 0
              /\ item.SimilarityScore - ScoreOf(item.Cr_ID) \in -30..30
        /\ \A r \in NewMatchRows :
              /\ matchRows[r].Target_Cr_ID \in ReachingIds
              /\ matchRows[r].SimilarityScore = ScoreOf(matchRows[r].Target_Cr_ID)
              /\ matchRows[r].SimilarityScore >= sim.threshold
        /\ NothingBelowThreshold

\* a search that returned and persisted a match whose reported score is below
\* the threshold
C18_Witness ==
    /\ sim.calls > 0
    /\ NewMatchRows # {}
    /\ \E k \in DOMAIN sim.similar_logs :
          sim.similar_logs[k].SimilarityScore < sim.threshold

\* a search with candidates, all of them below the threshold
C18_WitnessNothing ==
    /\ sim.calls > 0
    /\ CandidateIds # {}
    /\ sim.cr_id \in DOMAIN errorLogs
    /\ ReachingIds = {}
    /\ \E id \in CandidateIds : ScoreOf(id) > 0

\* the candidates the last search returned
ReturnedIds == {sim.similar_logs[k].Cr_ID : k \in DOMAIN sim.similar_logs}

\* C19: the list returned is sorted by non-increasing reported score, has at most
\* 10 entries, each a different candidate that reached the threshold; no entry
\* reports a lower score than a candidate that reached the threshold and was left
\* out would; total_found is the number of all candidates that reached the
\* threshold, beyond 10 too.
C19_SortedTop ==
    sim.calls > 0 =>
        /\ \A k \in DOMAIN sim.similar_logs : \A l \in DOMAIN sim.similar_logs :
              k < l => /\ sim.similar_logs[k].SimilarityScore
                            >= sim.similar_logs[l].SimilarityScore
                       /\ sim.similar_logs[k].Cr_ID # sim.similar_logs[l].Cr_ID
        /\ Len(sim.similar_logs) <= 10
        /\ ReturnedIds \subseteq ReachingIds
        /\ \A k \in DOMAIN sim.similar_logs : \A out \in ReachingIds \ ReturnedIds :
              sim.similar_logs[k].SimilarityScore >= Round2(ScoreOf(out))
        /\ sim.total_found = Cardinality(ReachingIds)
        /\ Len(sim.similar_logs) = IF sim.total_found < 10 THEN sim.total_found ELSE 10

\* a search in which twelve candidates of different scores reached the threshold
C19_Witness ==
    /\ sim.calls > 0
    /\ sim.total_found = 12
    /\ Len(sim.similar_logs) = 10
    /\ sim.similar_logs[1].SimilarityScore > sim.similar_logs[10].SimilarityScore
    /\ \E out \in ReachingIds \ ReturnedIds :
          Round2(ScoreOf(out)) = sim.similar_logs[10].SimilarityScore

\* C20 as stated: the tier persisted with a SimilarLogMatch follows from its score
\* by the thresholds 0.6 and 0.8, a score of exactly 0.8 being high and a score of
\* exactly 0.6 medium.
C20_Claim ==
    \A r \in DOMAIN matchRows :
        matchRows[r].ConfidenceLevel =
            IF matchRows[r].SimilarityScore >= 4800 THEN "high"
            ELSE IF matchRows[r].SimilarityScore >= 3600 THEN "medium"
            ELSE "low"

\* the pairs of incidents the last search scored: each candidate with the
\* incident the search was made for
IncidentPairs ==
    IF sim.cr_id \in DOMAIN errorLogs
    THEN {<<id, sim.cr_id>> : id \in DOMAIN errorLogs \ {sim.cr_id}}
    ELSE {}

\* the score the loop computes for candidate a when the search is made for b
PairScore(a, b) == SimilarityScore(errorLogs[a], CurrentLog(b))

\* the sum of C21 for two rows, in the units of the model: 0.3, 0.2 and 0.1 for
\* an identical error name, module and team, and 0.4 times the Jaccard
\* similarity of the lowercase word sets, 0 when a description is empty
ExactScore(x, y) ==
    LET xs == {lower(x.Description[k]) : k \in DOMAIN x.Description}
        ys == {lower(y.Description[k]) : k \in DOMAIN y.Description}
    IN (IF x.ErrorName = y.ErrorName THEN 1800 ELSE 0)
       + (IF x.Module = y.Module THEN 1200 ELSE 0)
       + (IF x.TeamName = y.TeamName THEN 600 ELSE 0)
       + (IF xs = {} \/ ys = {} THEN 0
          ELSE (2400 * Cardinality(xs \cap ys)) \div Cardinality(xs \cup ys))

\* C21: for every pair of incidents a search scores, the computed score is the sum of 0.3, 0.2,
\* 0.1 for identical name, module, team and 0.4 times the Jaccard similarity of
\* the descriptions, as double arithmetic yields it (off the decimal value by the
\* rounding of the additions only, less than one unit of the model), and within
\* [0, 1]; the score persisted with a match is the computed one.
C21_ScoreFormula ==
    sim.calls > 0 =>
        /\ \A p \in IncidentPairs :
              /\ PairScore(p[1], p[2])
                    - ExactScore(errorLogs[p[1]], errorLogs[p[2]]) \in -1..1
              /\ PairScore(p[1], p[2]) \in 0..6000
        /\ \A r \in NewMatchRows :
              /\ matchRows[r].SimilarityScore =
                    PairScore(matchRows[r].Target_Cr_ID, matchRows[r].Source_Cr_ID)
              /\ matchRows[r].SimilarityScore \in 0..6000

\* a search that persisted a match whose name and module are those of the
\* incident, whose team is not, and whose description shares one word of three
\* in another case (0.3 + 0.2 + 0.4/3)
C21_Witness ==
    /\ sim.calls > 0
    /\ \E r \in NewMatchRows :
          LET x == errorLogs[matchRows[r].Target_Cr_ID]
              y == errorLogs[matchRows[r].Source_Cr_ID]
          IN /\ x.ErrorName = y.ErrorName /\ x.Module = y.Module
             /\ x.TeamName # y.TeamName
             /\ x.Description # y.Description
             /\ matchRows[r].SimilarityScore = 3800

\* a search that persisted a match of score 1.0
C21_WitnessOne ==
    /\ sim.calls > 0
    /\ \E r \in NewMatchRows : matchRows[r].SimilarityScore = 6000


\* candidate x with one field set to that of the target y
WithName(x, y) == [x EXCEPT !.ErrorName = y.ErrorName]
WithModule(x, y) == [x EXCEPT !.Module = y.Module]
WithTeam(x, y) == [x EXCEPT !.TeamName = y.TeamName]

\* a row of an earlier search and a row of the last search that hold the same
\* pair of incidents in the two directions
ReversedRows ==
    {rr \in (1..(sim.first_row - 1)) \X NewMatchRows :
        /\ matchRows[rr[1]].Source_Cr_ID = matchRows[rr[2]].Target_Cr_ID
        /\ matchRows[rr[1]].Target_Cr_ID = matchRows[rr[2]].Source_Cr_ID}

\* C22: the score of B as a candidate for A is the score of A as a candidate for
\* B, for every pair of incidents a search scores and in the rows persisted by
\* searches made in the two directions; and a candidate whose error name, module or team is set
\* to that of the target scores no lower than before.
C22_SymmetricMonotonic ==
    sim.calls > 0 =>
        /\ \A p \in IncidentPairs :
              LET x == errorLogs[p[1]]
                  y == errorLogs[p[2]]
                  target == CurrentLog(p[2])
              IN /\ PairScore(p[1], p[2]) = PairScore(p[2], p[1])
                 /\ SimilarityScore(WithName(x, y), target) >= PairScore(p[1], p[2])
                 /\ SimilarityScore(WithModule(x, y), target) >= PairScore(p[1], p[2])
                 /\ SimilarityScore(WithTeam(x, y), target) >= PairScore(p[1], p[2])
        /\ \A rr \in ReversedRows :
              matchRows[rr[1]].SimilarityScore = matchRows[rr[2]].SimilarityScore

\* two searches, one made for A and one for B, persisted the pair in the two
\* directions; the descriptions of A and B have different numbers of words
C22_Witness ==
    /\ sim.calls = 2
    /\ \E rr \in ReversedRows :
          LET a == errorLogs[matchRows[rr[1]].Source_Cr_ID]
              b == errorLogs[matchRows[rr[1]].Target_Cr_ID]
          IN /\ Len(a.Description) # Len(b.Description)
             /\ Len(a.Description) > 0 /\ Len(b.Description) > 0

\* a table with a candidate that differs from the target in a field, scoring
\* higher once the field matches
C22_WitnessMonotonic ==
    /\ sim.calls > 0
    /\ \E p \in IncidentPairs :
          /\ errorLogs[p[1]].Module # errorLogs[p[2]].Module
          /\ SimilarityScore(WithModule(errorLogs[p[1]], errorLogs[p[2]]),
                             CurrentLog(p[2])) > PairScore(p[1], p[2])


\* the candidates of the rows the last search added, in the order of the rows
NewTargets == [k \in 1..(Len(matchRows) + 1 - sim.first_row) |->
                  matchRows[sim.first_row + k - 1].Target_Cr_ID]

\* C23: when the commit of a match raises during a search, the search returns
\* success, counts every candidate that reached the threshold (the one whose
\* write failed included, which is returned as the others are), and has persisted
\* one row for each of the other candidates that reached the threshold, in the
\* order of the table, those after the failure too.
C23_PersistFailureSwallowed ==
    (sim.calls > 0 /\ sim.failed \cap ReachingIds # {}) =>
        /\ sim.success
        /\ sim.total_found = Cardinality(ReachingIds)
        /\ sim.total_found <= 10 => ReturnedIds = ReachingIds
        /\ \A id \in sim.failed \cap ReachingIds :
              \/ id \in ReturnedIds
              \/ \A k \in DOMAIN sim.similar_logs :
                    sim.similar_logs[k].SimilarityScore >= Round2(ScoreOf(id))
        /\ {NewTargets[k] : k \in DOMAIN NewTargets} = ReachingIds \ sim.failed
        /\ \A k \in DOMAIN NewTargets : \A l \in DOMAIN NewTargets :
              k < l => NewTargets[k] < NewTargets[l]
        /\ \A r \in NewMatchRows :
              matchRows[r].SimilarityScore = ScoreOf(matchRows[r].Target_Cr_ID)

\* a search in which the write of one match failed, between a match persisted
\* before it and a match persisted after it, and the failed match is returned
C23_Witness ==
    /\ sim.calls > 0
    /\ sim.failed = {3}
    /\ 3 \in ReturnedIds
    /\ \E k \in DOMAIN NewTargets : NewTargets[k] = 2
    /\ \E k \in DOMAIN NewTargets : NewTargets[k] = 4


----------------------------------------------------------------------------
(* Properties of check_connection *)

CheckDone(w) == wk[w].op = "check" /\ wk[w].pc = "done"

\* C24 as stated: when a check_connection call has returned, the current
\* ServiceStatus row exists and carries the outcome of that call: checked at the
\* time of the call, connected after a 200 response, and not connected with the
\* error recorded after any other outcome, a missing API key included.
C24_Claim ==
    CheckDone(1) =>
        /\ get_current_status # {}
        /\ \A i \in get_current_status :
              /\ statusRows[i].LastConnectionCheck = clock
              /\ statusRows[i].IsConnected = (wk[1].result.success = "true")
              /\ wk[1].result.success # "true" =>
                    statusRows[i].LastErrorMessage = wk[1].result.error


----------------------------------------------------------------------------
(* Properties of GenAIService *)

\* C25: when the OpenAIService call reports success False, GenAIService.
\* generate_summary returns success True with the summary built from the result
\* of recognize_patterns and the confidence 0.65, and GenAIService.
\* suggest_solutions returns success True with a non-empty list of fallback
\* solutions and a confidence of 0.7 or 0.4.
C25_NeverSurfacesFailure ==
    /\ (fn.op = "genai_summary" /\ ~fn.input.result.success) =>
          /\ fn.output.success
          /\ fn.output.summary =
                PatternSummary(recognize_patterns(TextOf(fn.input.log_content)))
          /\ Len(fn.output.summary) > 0
          /\ fn.output.confidence = 65
    /\ (fn.op = "genai_solutions" /\ ~fn.input.result.success) =>
          /\ fn.output.success
          /\ Len(fn.output.solutions) > 0
          /\ \A k \in DOMAIN fn.output.solutions : fn.output.solutions[k] # ""
          /\ fn.output.confidence \in {40, 70}

\* generate_summary called on a log with a line of the table while the AI call
\* fails
C25_Witness ==
    /\ fn.op = "genai_summary"
    /\ ~fn.input.result.success
    /\ fn.input.result.error = "Request timeout"
    /\ fn.output.summary = "Detected 1 error patterns. Primary: kernel_panic"

\* suggest_solutions called while the AI call fails
C25_WitnessSolutions ==
    /\ fn.op = "genai_solutions"
    /\ ~fn.input.result.success
    /\ fn.input.error_log.TeamName = "Backend"
    /\ Len(fn.output.solutions) = 7


----------------------------------------------------------------------------
(* Properties of the report *)

\* C26 as stated: whichever operation writes an AnalysisResult row, the row is
\* first stored as processing, and once it is completed or failed its status
\* does not change.
C26_Claim ==
    [][\A i \in DOMAIN analysisRows' :
          /\ i \notin DOMAIN analysisRows => analysisRows'[i].Status = "processing"
          /\ (i \in DOMAIN analysisRows /\ analysisRows[i].Status \in Terminal) =>
                analysisRows'[i].Status = analysisRows[i].Status]_vars

\* number of AI steps of worker w's run that succeeded
SucceededSteps(w) ==
    (IF wk[w].summary_ok THEN 1 ELSE 0) + (IF wk[w].solutions_ok THEN 1 ELSE 0)

\* C27 as stated: a row that analyze_error_log has marked completed has an end
\* timestamp, its TokensUsed is the tokens of the AI steps that succeeded (none
\* when none succeeded), and its ApiCost is the estimated cost of those tokens,
\* so it is not zero when TokensUsed is not zero.
C27_Claim ==
    \A i \in DOMAIN analysisRows :
        (analysisRows[i].AnalysisType = "complete" /\ analysisRows[i].Status = "completed") =>
            /\ analysisRows[i].ProcessingEndTime > analysisRows[i].ProcessingStartTime
            /\ \A w \in Workers :
                  (wk[w].op = "analyze" /\ wk[w].pc = "done" /\ wk[w].arow = i) =>
                      analysisRows[i].TokensUsed <= SucceededSteps(w) * MaxTokens
            /\ analysisRows[i].ApiCost = EstimatedCost(analysisRows[i].TokensUsed)
            /\ analysisRows[i].TokensUsed # 0 => analysisRows[i].ApiCost # 0

\* the rows of similar_log_matches, among those from position `from` on, that
\* join source s to target t
PairRows(rows, from, s, t) ==
    {r \in DOMAIN rows : /\ r >= from
                         /\ rows[r].Source_Cr_ID = s
                         /\ rows[r].Target_Cr_ID = t}

\* The candidates that reached the threshold in a search are those it returns
\* (ReturnedIds: the pools are smaller than the ten matches a search returns).

\* no step changes or removes a row of similar_log_matches
RowsKept == SubSeq(matchRows', 1, Len(matchRows)) = matchRows

C28_WitnessFailed ==
    /\ sim.calls = 2
    /\ sim.cr_id = 1
    /\ sim.failed = {3}
    /\ 3 \in ReturnedIds
    /\ Cardinality(PairRows(matchRows, 1, 1, 3)) = 1

\* C29 as stated: from a store with no status row, however the status updates of
\* concurrent connection checks interleave, there is never a second status row,
\* and there is exactly one once a check has returned.
C29_Claim ==
    /\ Len(statusRows) <= 1
    /\ (\E w \in Workers : CheckDone(w)) => Len(statusRows) = 1

----------------------------------------------------------------------------
(* Properties of the primary pattern *)

\* the position in the table of the rule matched at position k of matched_patterns
RuleAt(out, k) ==
    CHOOSE r \in DOMAIN ERROR_PATTERNS : ERROR_PATTERNS[r].name = out.matched_patterns[k]

\* C30 as stated: when recognize_patterns reports a primary pattern, the rule it
\* names has the severity reported as estimated_severity and the category
\* reported as primary_category; and matched_patterns names each rule at most
\* once, in the order of the table.
C30_Claim ==
    (fn.op = "recognize_patterns" /\ fn.output.success
       /\ fn.output.primary_pattern # None) =>
        /\ \E r \in DOMAIN ERROR_PATTERNS :
              /\ ERROR_PATTERNS[r].name = fn.output.primary_pattern
              /\ ERROR_PATTERNS[r].severity = fn.output.estimated_severity
              /\ ERROR_PATTERNS[r].category = fn.output.primary_category
        /\ \A k \in DOMAIN fn.output.matched_patterns :
              \A l \in DOMAIN fn.output.matched_patterns :
                 k < l => RuleAt(fn.output, k) < RuleAt(fn.output, l)

====
